---- MODULE Spec2Model ----
(***************************************************************************)
(* State-machine model of src/src/debugger/nodeDebugWrapper.ts: the        *)
(* NodeDebugWrapper that replaces launchRequest and disconnectRequest on  *)
(* the NodeDebugSession prototype, the re-initialization HTTP server a    *)
(* launch creates, and the promise chain a disconnect runs.               *)
(*                                                                         *)
(* JavaScript values are tagged records ([t |-> "string", v |-> chars]);  *)
(* a string is its sequence of one-character strings, so that parseInt,   *)
(* Number.prototype.toString and Array.prototype.join are computed and    *)
(* not assumed.  Node runs one callback at a time: every action is one    *)
(* callback run to completion, and callbacks queued with process.nextTick *)
(* (the queue `ticks`) run before the next I/O callback.                  *)
(*                                                                         *)
(* The collaborators outside the file are modelled at their interface:    *)
(* the original launch, attach and disconnect handlers record their call  *)
(* and return; RemoteExtension throws or rejects with an Error or with a  *)
(* string, or never answers; another process holds port 8081.             *)
(***************************************************************************)
EXTENDS Integers, Sequences, FiniteSets

\* ------------------------------------------------------------------ bounds
NumSessions == 2
MaxRequests == 2
MaxControlRequests == 1
MaxInstalls == 2
MaxSharedRequests == 3

\* ------------------------------------------------------- program constants
DefaultPort == 9090
MaxTcpPort == 65535
StatusOk == 200
StatusNotFound == 404
Radix == 10

Sessions == 1 .. NumSessions

\* --------------------------------------------------------------- JS values
Undefined == [t |-> "undefined"]
Null == [t |-> "null"]
NaN == [t |-> "NaN"]
Str(cs) == [t |-> "string", v |-> cs]
Num(n) == [t |-> "number", v |-> n]
Arr(a) == [t |-> "array", v |-> a]

DigitChars == <<"0", "1", "2", "3", "4", "5", "6", "7", "8", "9">>
WhiteSpace == {" "}

IsDigit(c) == \E i \in 1 .. Radix : DigitChars[i] = c
DigitOf(c) == (CHOOSE i \in 1 .. Radix : DigitChars[i] = c) - 1

\* typeof value === "undefined" || value === null
isNullOrUndefined(value) == value.t = "undefined" \/ value.t = "null"

\* ToBoolean, as the operator || applies it to its left operand
Truthy(value) ==
    CASE value.t = "undefined" -> FALSE
      [] value.t = "null" -> FALSE
      [] value.t = "NaN" -> FALSE
      [] value.t = "number" -> value.v # 0
      [] value.t = "string" -> value.v # <<>>
      [] OTHER -> TRUE

\* a || b
OrElse(a, b) == IF Truthy(a) THEN a ELSE b

RECURSIVE NatToChars(_)
NatToChars(n) ==
    IF n < Radix THEN <<DigitChars[n + 1]>>
    ELSE NatToChars(n \div Radix) \o <<DigitChars[(n % Radix) + 1]>>

\* Number.prototype.toString() of an integer
NumberToString(n) == IF n < 0 THEN <<"-">> \o NatToChars(-n) ELSE NatToChars(n)

\* ToString of the values a launch configuration can hold in a port field
ToString(value) ==
    CASE value.t = "string" -> value.v
      [] value.t = "number" -> NumberToString(value.v)
      [] value.t = "undefined" -> <<"u", "n", "d", "e", "f", "i", "n", "e", "d">>
      [] value.t = "null" -> <<"n", "u", "l", "l">>
      [] OTHER -> <<"N", "a", "N">>

RECURSIVE StripLeft(_)
StripLeft(cs) ==
    IF cs # <<>> /\ Head(cs) \in WhiteSpace THEN StripLeft(Tail(cs)) ELSE cs

RECURSIVE DigitPrefix(_)
DigitPrefix(cs) ==
    IF cs # <<>> /\ IsDigit(Head(cs))
    THEN <<Head(cs)>> \o DigitPrefix(Tail(cs))
    ELSE <<>>

RECURSIVE DigitsValue(_)
DigitsValue(ds) ==
    IF ds = <<>> THEN 0
    ELSE Radix * DigitsValue(SubSeq(ds, 1, Len(ds) - 1)) + DigitOf(ds[Len(ds)])

\* parseInt(value, 10): leading white space, an optional sign, then the
\* longest prefix of decimal digits; NaN when that prefix is empty.
parseInt(value) ==
    LET s == StripLeft(ToString(value))
        signed == s # <<>> /\ Head(s) \in {"+", "-"}
        neg == s # <<>> /\ Head(s) = "-"
        ds == DigitPrefix(IF signed THEN Tail(s) ELSE s)
    IN  IF ds = <<>> THEN NaN
        ELSE Num(IF neg THEN 0 - DigitsValue(ds) ELSE DigitsValue(ds))

RECURSIVE JoinChars(_, _)
JoinChars(elems, sep) ==
    IF elems = <<>> THEN <<>>
    ELSE IF Len(elems) = 1 THEN ToString(elems[1])
    ELSE ToString(elems[1]) \o sep \o JoinChars(Tail(elems), sep)

\* Array.prototype.join(" ")
Join(array, sep) == Str(JoinChars(array.v, sep))

\* ------------------------------------------------------------------- paths
\* A path is [abs |-> BOOLEAN, segs |-> sequence of segments].
Cwd == <<"home">>

\* as UpUp, had the program's directory been taken as the project root
UpOne == [abs |-> FALSE, segs |-> <<"..">>]

\* "../..", the second argument of path.resolve in the wrapped launch
UpUp == [abs |-> FALSE, segs |-> <<"..", "..">>]

RECURSIVE NormalizeSegs(_, _)
NormalizeSegs(stack, segs) ==
    IF segs = <<>> THEN stack
    ELSE IF Head(segs) = "." THEN NormalizeSegs(stack, Tail(segs))
    ELSE IF Head(segs) = ".."
         THEN NormalizeSegs(IF stack = <<>> THEN <<>>
                            ELSE SubSeq(stack, 1, Len(stack) - 1), Tail(segs))
    ELSE NormalizeSegs(Append(stack, Head(segs)), Tail(segs))

\* path.resolve(from, to): the absolute, normalised path
PathResolve(from, to) ==
    [abs |-> TRUE,
     segs |-> NormalizeSegs(<<>>,
                 IF to.abs THEN to.segs
                 ELSE IF from.abs THEN from.segs \o to.segs
                 ELSE Cwd \o from.segs \o to.segs)]

\* ------------------------------------------------ wrapper and launch inputs
\* the constructor's appName and version, and Telemetry's instrumentation key
AppName == "react-native"
Version == "0.2.0"
APPINSIGHTS_INSTRUMENTATIONKEY == "instrumentation-key"

\* IOSPlatform.DEFAULT_IOS_PROJECT_RELATIVE_PATH
DEFAULT_IOS_PROJECT_RELATIVE_PATH == Str(<<"i", "o", "s">>)
Simulator == Str(<<"s", "i", "m", "u", "l", "a", "t", "o", "r">>)
Device == Str(<<"d", "e", "v", "i", "c", "e">>)
RefreshBreakpoints == "/refreshBreakpoints"

Programs ==
    { [abs |-> TRUE, segs |-> <<"projA", ".vscode", "launchReactNative.js">>],
      [abs |-> TRUE, segs |-> <<"projB", "ios", "App.xcodeproj", "..">>],
      [abs |-> FALSE, segs |-> <<"projC", ".vscode", "launchReactNative.js">>] }
Platforms == { Str(<<"i", "o", "s">>), Str(<<"a", "n", "d", "r", "o", "i", "d">>) }
PortValues ==
    { Undefined, Str(<<"8", "0", "8", "1">>), Num(8081), Str(<<"a", "b", "c">>),
      Str(<<"0">>), Str(<<"-", "5">>), Str(<<" ", "8", "1", "p", "x">>) }
RelativePaths == { Undefined, Null, Str(<<"m", "y">>), Str(<<>>) }
Targets == { Undefined, Null, Device, Simulator, Str(<<>>) }
LogCatValues ==
    { Undefined, Null, Str(<<"-", "v">>), Arr(<<>>),
      Arr(<<Str(<<"-", "b">>), Str(<<"m", "a", "i", "n">>), Str(<<"-", "v">>)>>),
      Arr(<<Str(<<"*", ":", "S">>)>>) }
CallerArgs == { Undefined, Arr(<<Str(<<"-", "-", "e", "v", "i", "l">>)>>) }

\* ILaunchArgs: every launch configuration over the values above
AllLaunchArgs ==
    [program : Programs, platform : Platforms, internalDebuggerPort : PortValues,
     iosRelativeProjectPath : RelativePaths, target : Targets,
     logCatArguments : LogCatValues, args : CallerArgs]

LaunchArgs(program, port, rel, target, logcat, args) ==
    [program |-> program, platform |-> Str(<<"i", "o", "s">>),
     internalDebuggerPort |-> port, iosRelativeProjectPath |-> rel,
     target |-> target, logCatArguments |-> logcat, args |-> args]

ProgramA == [abs |-> TRUE, segs |-> <<"projA", ".vscode", "launchReactNative.js">>]
ProgramB == [abs |-> TRUE, segs |-> <<"projB", "ios", "App.xcodeproj", "..">>]

\* The launch configurations of the protocol specification: a few of
\* AllLaunchArgs, two of which differ only in fields the launch must ignore.
SessionLaunchArgs ==
    { LaunchArgs(ProgramA, Undefined, Undefined, Undefined, Undefined, Undefined),
      LaunchArgs(ProgramB, Undefined, Undefined, Undefined, Undefined,
                 Arr(<<Str(<<"-", "-", "e", "v", "i", "l">>)>>)),
      LaunchArgs(ProgramB, Str(<<"8", "0", "8", "1">>), Null, Device,
                 Arr(<<Str(<<"-", "b">>), Str(<<"m", "a", "i", "n">>), Str(<<"-", "v">>)>>),
                 Undefined) }

\* The launch configurations with one more, on another free port.
ServerLaunchArgs ==
    SessionLaunchArgs \cup
    { LaunchArgs(ProgramA, Str(<<"8", "0", "8", "2">>), Undefined, Undefined,
                 Undefined, Undefined) }

\* ------------------------------------------------------------------- state
VARIABLES
    installs,           \* calls of customizeNodeAdapterRequests so far
    prototype,          \* per NodeDebugSession method: the wrappers around it
    projectRootPath,    \* NodeDebugWrapper.projectRootPath
    telemetryReporter,  \* what the ReassignableTelemetryReporter points to
    rebinds,            \* the calls of telemetryReporter.reassignTo
    externalPorts,      \* TCP ports other processes hold
    sourceMaps,         \* per session: this._sourceMaps
    sent,               \* per session: the events given to this.sendEvent
    servers,            \* the reinitializeServer of each wrapped launch
    launchCalls,        \* invocations of the original launchRequest
    attachCalls,        \* invocations of the original attachRequest
    disconnects,        \* the wrapped disconnect requests and their promise
    disconnectCalls,    \* invocations of the original disconnectRequest
    stderr,             \* lines written to process.stderr
    telemetry,          \* TelemetryHelper.sendSimpleEvent calls
    responses,          \* the answered control requests
    thrown,             \* exceptions that left a wrapped handler
    ticks,              \* callbacks queued for the end of the current turn
    seq,                \* protocol requests received so far
    received            \* the protocol requests given to the session's handlers

vars ==
    <<installs, prototype, projectRootPath, telemetryReporter, rebinds,
      externalPorts, sourceMaps,
      sent, servers, launchCalls, attachCalls, disconnects, disconnectCalls,
      stderr, telemetry, responses, thrown, ticks, seq, received>>

\* the request handlers of NodeDebugSession.prototype
Methods == {"launchRequest", "attachRequest", "disconnectRequest"}

NoSourceMaps == Undefined
LoadedSourceMaps ==
    [t |-> "object", _allSourceMaps |-> {"index.map"},
     _generatedToSourceMaps |-> {"index.bundle"}, _sourceToGeneratedMaps |-> {"index.js"}]

Init ==
    /\ installs = 0
    /\ prototype = [m \in Methods |-> 0]
    /\ projectRootPath = Undefined
    /\ telemetryReporter = [kind |-> "placeholder"]
    /\ rebinds = <<>>
    /\ externalPorts = {8081}
    /\ sourceMaps = [s \in Sessions |-> IF s = 1 THEN LoadedSourceMaps
                                       ELSE NoSourceMaps]
    /\ sent = [s \in Sessions |-> <<>>]
    /\ servers = <<>>
    /\ launchCalls = <<>>
    /\ attachCalls = <<>>
    /\ disconnects = <<>>
    /\ disconnectCalls = <<>>
    /\ stderr = <<>>
    /\ telemetry = <<>>
    /\ responses = <<>>
    /\ thrown = <<>>
    /\ ticks = <<>>
    /\ seq = 0
    /\ received = <<>>

\* as Customized, had the call of customizeAttachRequest been left in
CustomizedWithAttach == {"launchRequest", "attachRequest", "disconnectRequest"}

\* The methods customizeNodeAdapterRequests replaces: it calls
\* customizeLaunchRequest and customizeDisconnectRequest, the call of
\* customizeAttachRequest is commented out.
Customized == {"launchRequest", "disconnectRequest"}

\* customizeNodeAdapterRequests(): each customize method captures the
\* current prototype method and puts a wrapper around it in its place.
customizeNodeAdapterRequests ==
    /\ installs' = installs + 1
    /\ prototype' = [m \in Methods |-> IF m \in Customized THEN prototype[m] + 1
                                       ELSE prototype[m]]
    /\ UNCHANGED <<projectRootPath, telemetryReporter, rebinds, externalPorts, sourceMaps,
                   sent, servers, launchCalls, attachCalls, disconnects,
                   disconnectCalls, stderr, telemetry, responses, thrown, ticks, seq, received>>

\* as Idle, had the wrapped disconnect held the event loop until the stop
\* call settled
IdleOnceStopped ==
    /\ installs > 0
    /\ ticks = <<>>
    /\ \A d \in 1 .. Len(disconnects) : disconnects[d].stop # "pending"

\* as Idle, had the callbacks queued for the end of the turn been ordinary
\* events that wait their turn among the I/O callbacks
IdleBetweenEvents == installs > 0

\* An I/O callback (a protocol request, a control request, the settling of
\* the stop call) starts only when the nextTick queue is empty.
Idle == installs > 0 /\ ticks = <<>>

\* ----------------------------------------------------------- wrapped launch
\* parseInt(args.internalDebuggerPort, 10) || 9090
debugServerListeningPort(args) ==
    OrElse(parseInt(args.internalDebuggerPort), Num(DefaultPort))

\* as parseLogCatArguments, had join been called without a separator
parseLogCatArgumentsComma(userProvidedLogCatArguments) ==
    IF userProvidedLogCatArguments.t = "array"
    THEN Join(userProvidedLogCatArguments, <<",">>)
    ELSE userProvidedLogCatArguments

parseLogCatArguments(userProvidedLogCatArguments) ==
    IF userProvidedLogCatArguments.t = "array"
    THEN Join(userProvidedLogCatArguments, <<" ">>)
    ELSE userProvidedLogCatArguments

\* as SanitizedArgs, had the relative path been defaulted with ||
SanitizedArgsFalsyPath(args, port) ==
    LET fixed ==
            << args.platform,
               Str(NumberToString(port.v)),
               OrElse(args.iosRelativeProjectPath, DEFAULT_IOS_PROJECT_RELATIVE_PATH),
               OrElse(args.target, Simulator) >>
    IN  IF ~isNullOrUndefined(args.logCatArguments)
        THEN Arr(fixed \o <<parseLogCatArguments(args.logCatArguments)>>)
        ELSE Arr(fixed)

\* as SanitizedArgs, had the caller's args.args been kept in front
SanitizedArgsKeepCaller(args, port) ==
    LET fixed ==
            << args.platform,
               Str(NumberToString(port.v)),
               IF ~isNullOrUndefined(args.iosRelativeProjectPath)
               THEN args.iosRelativeProjectPath
               ELSE DEFAULT_IOS_PROJECT_RELATIVE_PATH,
               OrElse(args.target, Simulator) >>
        kept == IF args.args.t = "array" THEN fixed \o args.args.v ELSE fixed
    IN  IF ~isNullOrUndefined(args.logCatArguments)
        THEN Arr(kept \o <<parseLogCatArguments(args.logCatArguments)>>)
        ELSE Arr(kept)

\* the value assigned to args.args
SanitizedArgs(args, port) ==
    LET fixed ==
            << args.platform,
               Str(NumberToString(port.v)),
               IF ~isNullOrUndefined(args.iosRelativeProjectPath)
               THEN args.iosRelativeProjectPath
               ELSE DEFAULT_IOS_PROJECT_RELATIVE_PATH,
               OrElse(args.target, Simulator) >>
    IN  IF ~isNullOrUndefined(args.logCatArguments)
        THEN Arr(fixed \o <<parseLogCatArguments(args.logCatArguments)>>)
        ELSE Arr(fixed)

\* new ExtensionTelemetryReporter(appName, version, key, projectRootPath)
ExtensionTelemetryReporter(appName, version, key, root) ==
    [kind |-> "extension", appName |-> appName, version |-> version,
     key |-> key, projectRootPath |-> root]

\* as PortTaken, had the process been allowed to bind a port twice
PortTakenByOthers(created, port) == port \in externalPorts

\* a server holds a TCP port while it listens on a port it asked for
PortTaken(created, port) ==
    \/ port \in externalPorts
    \/ \E k \in 1 .. Len(created) :
          created[k].state = "listening" /\ created[k].port = port

\* reinitializeServer.listen(port).  Node binds the socket inside listen
\* and reports a bind failure with an "error" event on the next tick.  A
\* port outside 0..65535 is rejected by listen with a RangeError in the Node
\* versions that validate the port (validates), and replaced by a port of
\* the system's choosing in those that do not.
\* as ListenOutcome, had a taken port made listen throw
ListenOutcomeThrows(created, port, validates) ==
    IF port < 0 \/ port > MaxTcpPort
    THEN IF validates THEN "threw" ELSE "ephemeral"
    ELSE IF PortTaken(created, port) THEN "threw" ELSE "listening"

ListenOutcome(created, port, validates) ==
    IF port < 0 \/ port > MaxTcpPort
    THEN IF validates THEN "threw" ELSE "ephemeral"
    ELSE IF PortTaken(created, port) THEN "errorPending" ELSE "listening"

\* attachRequest(launchRequest, debugSession, request, args):
\* launchRequest.call(debugSession, request, args)
attachRequest(debugSession, request, args) ==
    [receiver |-> debugSession, request |-> request, args |-> args]

\* the call of telemetryReporter.reassignTo by one run of the wrapper, made
\* before http.createServer and before the original launch: with the
\* servers created and the original launches invoked until then
Rebind(request, root, created, invoked) ==
    [request |-> request,
     to |-> ExtensionTelemetryReporter(AppName, Version,
                                       APPINSIGHTS_INSTRUMENTATIONKEY, root),
     servers |-> Len(created), launched |-> Len(invoked)]

\* The body of the wrapper customizeLaunchRequest installs, run with
\* `wrappers` wrappers left between it and the original launchRequest:
\* originalRequest is the method the wrapper captured, the next wrapper
\* when customizeNodeAdapterRequests ran more than once.  `st` holds what
\* the handler has done so far.
RECURSIVE WrappedLaunch(_, _, _, _, _, _, _)
WrappedLaunch(wrappers, session, request, args, given, validates, st) ==
    LET root == PathResolve(args.program, UpUp)
        port == debugServerListeningPort(args)
        outcome == ListenOutcome(st.servers, port.v, validates)
        k == Len(st.servers) + 1
        server == [session |-> session, request |-> request, given |-> args,
                   port |-> port.v, state |-> outcome]
        created == Append(st.servers, server)
        rebound == Append(st.rebinds,
                          Rebind(request, root, st.servers, st.launchCalls))
        bound == [st EXCEPT !.projectRootPath = root,
                            !.rebinds = rebound,
                            !.servers = created]
        sanitized == [args EXCEPT !.args = SanitizedArgs(args, port)]
        listening == [bound EXCEPT !.ticks =
                         IF outcome = "errorPending"
                         THEN Append(@, [kind |-> "error", id |-> k])
                         ELSE @]
    IN  IF outcome = "threw"
        THEN [bound EXCEPT !.thrown =
                 Append(@, [op |-> "launch", request |-> request,
                            error |-> "RangeError"])]
        ELSE IF wrappers = 1
        THEN [listening EXCEPT !.launchCalls =
                 Append(@, [call |-> attachRequest(session, request, sanitized),
                            given |-> given, server |-> k])]
        ELSE WrappedLaunch(wrappers - 1, session, request, sanitized, given,
                           validates, listening)

\* NodeDebugSession.prototype.launchRequest after customizeLaunchRequest
launchRequest(session, args, validates) ==
    /\ Idle
    /\ LET request == seq + 1
           done == WrappedLaunch(prototype.launchRequest, session, request, args,
                                 args, validates,
                                 [projectRootPath |-> projectRootPath,
                                  rebinds |-> rebinds, servers |-> servers,
                                  ticks |-> ticks, launchCalls |-> launchCalls,
                                  thrown |-> thrown])
       IN  /\ seq' = request
           /\ received' = Append(received, [command |-> "launch",
                                            session |-> session, args |-> args])
           /\ projectRootPath' = done.projectRootPath
           /\ rebinds' = done.rebinds
           /\ telemetryReporter' = done.rebinds[Len(done.rebinds)].to
           /\ servers' = done.servers
           /\ ticks' = done.ticks
           /\ launchCalls' = done.launchCalls
           /\ thrown' = done.thrown
    /\ UNCHANGED <<installs, prototype, externalPorts, sourceMaps, sent, attachCalls,
                   disconnects, disconnectCalls, stderr, telemetry, responses>>

InitializedEvent == [event |-> "initialized"]
OutputEvent(output, category, server) ==
    [event |-> "output", output |-> output, category |-> category, server |-> server]

\* reinitializeServer.on("error", ...): runs on the tick after a failed bind
reinitializeServerError ==
    /\ ticks # <<>>
    /\ Head(ticks).kind = "error"
    /\ LET k == Head(ticks).id
           s == servers[k].session
       IN  /\ telemetry' = Append(telemetry, [event |-> "reinitializeServerError",
                                             server |-> k])
           /\ sent' = [sent EXCEPT ![s] = @ \o
                 << OutputEvent(<<"Error in debug adapter server: ",
                                  "Error: listen EADDRINUSE">>, "stderr", k),
                    OutputEvent(<<"Breakpoints may not update. Consider restarting and specifying a different 'internalDebuggerPort' in launch.json">>,
                                "console", k) >>]
           /\ servers' = [servers EXCEPT ![k].state = "error"]
           /\ ticks' = Tail(ticks)
    /\ UNCHANGED <<installs, prototype, projectRootPath, telemetryReporter, rebinds,
                   externalPorts,
                   sourceMaps, launchCalls, attachCalls, disconnects,
                   disconnectCalls, stderr, responses, thrown, seq, received>>

\* ---------------------------------------------------------- control server
ControlUrls == {RefreshBreakpoints, "/refreshBreakpoints?force=1"}

\* as IsRefresh, had the query string been ignored
IsRefreshIgnoringQuery(url) ==
    url \in {RefreshBreakpoints, "/refreshBreakpoints?force=1"}

\* req.url === "/refreshBreakpoints"
IsRefresh(url) == url = RefreshBreakpoints

\* res.statusCode when res.end() is called
StatusCode(url) == IF IsRefresh(url) THEN StatusOk ELSE StatusNotFound

\* as Flushed, had the source-to-generated cache been left out
FlushedButSourceToGenerated(sourceMapsOfSession) ==
    [sourceMapsOfSession EXCEPT !._allSourceMaps = {},
                                !._generatedToSourceMaps = {}]

\* this._sourceMaps after the three assignments of {}
Flushed(sourceMapsOfSession) ==
    [sourceMapsOfSession EXCEPT !._allSourceMaps = {},
                                !._generatedToSourceMaps = {},
                                !._sourceToGeneratedMaps = {}]

\* the statements of the request listener that run for a request, in order
ControlSteps(url, sourceMapsOfSession) ==
    <<"statusCode = 404">>
    \o (IF IsRefresh(url)
        THEN <<"statusCode = 200">>
             \o (IF Truthy(sourceMapsOfSession) THEN <<"flush">> ELSE <<>>)
             \o <<"sendEvent">>
        ELSE <<>>)
    \o <<"end">>

\* the request listener given to http.createServer, for a request to a
\* server that listens
controlRequest(k, url) ==
    /\ Idle
    /\ servers[k].state \in {"listening", "ephemeral"}
    /\ LET s == servers[k].session
       IN  /\ responses' = Append(responses,
                                  [server |-> k, url |-> url,
                                   statusCode |-> StatusCode(url),
                                   steps |-> ControlSteps(url, sourceMaps[s])])
           /\ sourceMaps' = IF IsRefresh(url) /\ Truthy(sourceMaps[s])
                            THEN [sourceMaps EXCEPT ![s] = Flushed(@)]
                            ELSE sourceMaps
           /\ sent' = IF IsRefresh(url)
                      THEN [sent EXCEPT ![s] = Append(@, InitializedEvent)]
                      ELSE sent
    /\ UNCHANGED <<installs, prototype, projectRootPath, telemetryReporter, rebinds,
                   externalPorts,
                   servers, launchCalls, attachCalls, disconnects, disconnectCalls,
                   stderr, telemetry, thrown, ticks, seq, received>>

\* ------------------------------------------------------------------ attach
\* customizeAttachRequest is commented out: the prototype's attachRequest
\* is the original one.
ProtocolArgs == { Undefined, [t |-> "object", restart |-> TRUE] }

originalAttachRequest(session, args) ==
    /\ Idle
    /\ seq' = seq + 1
    /\ received' = Append(received, [command |-> "attach", session |-> session,
                                     args |-> args])
    /\ attachCalls' = Append(attachCalls, [receiver |-> session,
                                           request |-> seq + 1, args |-> args])
    /\ UNCHANGED <<installs, prototype, projectRootPath, telemetryReporter, rebinds,
                   externalPorts,
                   sourceMaps, sent, servers, launchCalls, disconnects,
                   disconnectCalls, stderr, telemetry, responses, thrown, ticks>>

\* ------------------------------------------------------- wrapped disconnect
\* What the promise of stopMonitoringLogcat() can be rejected with: an Error
\* with a message, a bare reason string.
Failures ==
    { [kind |-> "Error", message |-> "ECONNRESET"],
      [kind |-> "string", value |-> "ETIMEDOUT"] }
NoFailure == [kind |-> "none"]

\* How RemoteExtension behaves inside the try block: atProjectRootPath
\* throws (an Error with a message), stopMonitoringLogcat throws (an Error
\* without one), or it returns a promise.
RemoteBehaviours ==
    { [throws |-> "nothing", failure |-> NoFailure],
      [throws |-> "atProjectRootPath",
       failure |-> [kind |-> "Error", message |-> "ECONNRESET"]],
      [throws |-> "stopMonitoringLogcat",
       failure |-> [kind |-> "Error", message |-> ""]] }

\* as MessageOrReason, had the line held ${reason.message} alone
MessageOnly(reason) ==
    IF reason.kind = "Error" THEN reason.message ELSE "undefined"

\* ${reason.message || reason}: the message of an Error that has one, else
\* the value converted to a string
MessageOrReason(reason) ==
    IF reason.kind = "Error"
    THEN IF reason.message # "" THEN reason.message ELSE "Error"
    ELSE reason.value

AsyncWarning(reason) ==
    <<"WARNING: Couldn't stop monitoring logcat: ", MessageOrReason(reason), "\n">>
SyncWarning(exception) ==
    <<"WARNING: Couldn't stop monitoring logcat. Sync exception: ",
      MessageOrReason(exception), "\n">>

\* originalRequest.call(this, response, args)
originalDisconnect(d, flow) ==
    [receiver |-> flow.receiver, response |-> flow.response, args |-> flow.args,
     id |-> d]

\* as CatchCallsOriginal, had the original been called without waiting
CallsOriginalAtOnce(stop) == TRUE

\* The wrapped handler itself calls the original only in its catch block.
CatchCallsOriginal(stop) == stop = "threw"

\* The body of the wrapper customizeDisconnectRequest installs, run with
\* `wrappers` wrappers left between it and the original disconnectRequest,
\* up to the end of its try/catch: originalRequest is the method the
\* wrapper captured, the next wrapper when customizeNodeAdapterRequests ran
\* more than once.  With no wrapper left the original is invoked, on behalf
\* of the run `caller`.  remotes[w] is how RemoteExtension behaves for the
\* wrapper that has w left; `st` holds what the handler has done so far.
RECURSIVE WrappedDisconnect(_, _, _, _, _, _, _)
WrappedDisconnect(wrappers, caller, session, response, args, remotes, st) ==
    IF wrappers = 0
    THEN [st EXCEPT !.disconnectCalls =
             Append(@, originalDisconnect(caller,
                                          [receiver |-> session,
                                           response |-> response,
                                           args |-> args]))]
    ELSE LET remote == remotes[wrappers]
             d == Len(st.disconnects) + 1
             flow == [receiver |-> session,
                      response |-> response,
                      args |-> args,
                      wrappers |-> wrappers,
                      root |-> projectRootPath,
                      stopCalled |-> remote.throws # "atProjectRootPath",
                      stop |-> IF remote.throws = "nothing" THEN "pending"
                               ELSE "threw",
                      failure |-> remote.failure]
             tried == [st EXCEPT
                          !.disconnects = Append(@, flow),
                          !.stderr = IF flow.stop = "threw"
                                     THEN Append(@, [line |-> SyncWarning(flow.failure),
                                                     id |-> d])
                                     ELSE @]
         IN  IF CatchCallsOriginal(flow.stop)
             THEN WrappedDisconnect(wrappers - 1, d, session, response, args,
                                    remotes, tried)
             ELSE tried

\* NodeDebugSession.prototype.disconnectRequest after
\* customizeDisconnectRequest
disconnectRequest(session, args, remotes) ==
    /\ Idle
    /\ LET done == WrappedDisconnect(prototype.disconnectRequest, 0, session,
                                     [command |-> "disconnect",
                                      request_seq |-> seq + 1],
                                     args, remotes,
                                     [disconnects |-> disconnects,
                                      stderr |-> stderr,
                                      disconnectCalls |-> disconnectCalls])
       IN  /\ seq' = seq + 1
           /\ received' = Append(received, [command |-> "disconnect",
                                            session |-> session, args |-> args])
           /\ disconnects' = done.disconnects
           /\ stderr' = done.stderr
           /\ disconnectCalls' = done.disconnectCalls
    /\ UNCHANGED <<installs, prototype, projectRootPath, telemetryReporter, rebinds,
                   externalPorts, sourceMaps, sent, servers, launchCalls,
                   attachCalls, telemetry, responses, thrown, ticks>>

\* The promise of stopMonitoringLogcat() settles: the callback of finally
\* is queued.
stopMonitoringSettles(d, failure) ==
    /\ Idle
    /\ disconnects[d].stop = "pending"
    /\ disconnects' = [disconnects EXCEPT
                          ![d].stop = IF failure = NoFailure THEN "resolved"
                                      ELSE "rejected",
                          ![d].failure = failure]
    /\ ticks' = Append(ticks, [kind |-> "finally", id |-> d])
    /\ UNCHANGED <<installs, prototype, projectRootPath, telemetryReporter, rebinds,
                   externalPorts,
                   sourceMaps, sent, servers, launchCalls, attachCalls,
                   disconnectCalls, stderr, telemetry, responses, thrown, seq, received>>

\* as FinallyRuns, had the callback been given to then
ThenRuns(stop) == stop = "resolved"

\* promise.finally(callback) runs the callback whether the promise was
\* fulfilled or rejected
FinallyRuns(stop) == stop \in {"resolved", "rejected"}

\* .finally(() => originalRequest.call(this, response, args)): the captured
\* method runs inside the callback, with the wrappers it has left
finallyCallback(remotes) ==
    /\ ticks # <<>>
    /\ Head(ticks).kind = "finally"
    /\ LET d == Head(ticks).id
           flow == disconnects[d]
           done == IF FinallyRuns(flow.stop)
                   THEN WrappedDisconnect(flow.wrappers - 1, d, flow.receiver,
                                          flow.response, flow.args, remotes,
                                          [disconnects |-> disconnects,
                                           stderr |-> stderr,
                                           disconnectCalls |-> disconnectCalls])
                   ELSE [disconnects |-> disconnects, stderr |-> stderr,
                         disconnectCalls |-> disconnectCalls]
       IN  /\ disconnects' = done.disconnects
           /\ stderr' = done.stderr
           /\ disconnectCalls' = done.disconnectCalls
           /\ ticks' = Append(Tail(ticks), [kind |-> "done", id |-> d])
    /\ UNCHANGED <<installs, prototype, projectRootPath, telemetryReporter, rebinds,
                   externalPorts, sourceMaps, sent, servers, launchCalls,
                   attachCalls, telemetry, responses, thrown, seq, received>>

\* .done(() => { }, reason => process.stderr.write(...)): finally passes the
\* outcome of the stop promise on
doneCallback ==
    /\ ticks # <<>>
    /\ Head(ticks).kind = "done"
    /\ LET d == Head(ticks).id
       IN  /\ stderr' =
                 IF disconnects[d].stop = "rejected"
                 THEN Append(stderr, [line |-> AsyncWarning(disconnects[d].failure),
                                      id |-> d])
                 ELSE stderr
           /\ disconnects' = [disconnects EXCEPT ![d].stop =
                                 IF @ = "rejected" THEN "reported" ELSE "stopped"]
           /\ ticks' = Tail(ticks)
    /\ UNCHANGED <<installs, prototype, projectRootPath, telemetryReporter, rebinds,
                   externalPorts,
                   sourceMaps, sent, servers, launchCalls, attachCalls,
                   disconnectCalls, telemetry, responses, thrown, seq, received>>

\* ----------------------------------------------------------- specification
Install == installs = 0 /\ customizeNodeAdapterRequests
Launch ==
    /\ seq < MaxRequests
    /\ \E session \in Sessions, args \in SessionLaunchArgs, validates \in BOOLEAN :
          launchRequest(session, args, validates)
BindError == reinitializeServerError
Control ==
    /\ Len(responses) < MaxControlRequests
    /\ \E k \in 1 .. Len(servers), url \in ControlUrls : controlRequest(k, url)
Attach ==
    /\ seq < MaxRequests
    /\ \E session \in Sessions, args \in ProtocolArgs :
          originalAttachRequest(session, args)
Disconnect ==
    /\ seq < MaxRequests
    /\ \E session \in Sessions, args \in ProtocolArgs,
          remotes \in [1 .. prototype.disconnectRequest -> RemoteBehaviours] :
          disconnectRequest(session, args, remotes)
Settle ==
    \E d \in 1 .. Len(disconnects), failure \in Failures \cup {NoFailure} :
        stopMonitoringSettles(d, failure)
RunFinally ==
    /\ ticks # <<>>
    /\ Head(ticks).kind = "finally"
    /\ \E remotes \in [1 .. disconnects[Head(ticks).id].wrappers - 1
                          -> RemoteBehaviours] :
          finallyCallback(remotes)
RunDone == doneCallback

\* one launch, over every launch configuration
LaunchAny ==
    /\ seq = 0
    /\ Idle
    /\ \E session \in Sessions, args \in AllLaunchArgs, validates \in BOOLEAN :
          launchRequest(session, args, validates)

Next ==
    \/ Install
    \/ Launch
    \/ BindError
    \/ Control
    \/ Attach
    \/ Disconnect
    \/ Settle
    \/ RunFinally
    \/ RunDone

Spec == Init /\ [][Next]_vars

\* The launch alone, over every launch configuration.
NextArgs ==
    \/ Install
    \/ LaunchAny
    \/ BindError

SpecArgs == Init /\ [][NextArgs]_vars

\* A driver that calls customizeNodeAdapterRequests again before the first
\* request.
Reinstall ==
    /\ installs < MaxInstalls
    /\ seq = 0
    /\ customizeNodeAdapterRequests

NextReinstall ==
    \/ Reinstall
    \/ Launch
    \/ BindError
    \/ Control
    \/ Disconnect
    \/ Settle
    \/ RunFinally
    \/ RunDone

SpecReinstall == Init /\ [][NextReinstall]_vars

\* Launch and disconnect requests of the session instances that share the
\* wrapped prototype.
SharedLaunch ==
    /\ seq < MaxSharedRequests
    /\ \E session \in Sessions, args \in SessionLaunchArgs, validates \in BOOLEAN :
          launchRequest(session, args, validates)
SharedDisconnect ==
    /\ seq < MaxSharedRequests
    /\ \E session \in Sessions, args \in ProtocolArgs,
          remotes \in [1 .. prototype.disconnectRequest -> RemoteBehaviours] :
          disconnectRequest(session, args, remotes)

NextShared ==
    \/ Install
    \/ SharedLaunch
    \/ BindError
    \/ SharedDisconnect
    \/ Settle
    \/ RunFinally
    \/ RunDone

SpecShared == Init /\ [][NextShared]_vars

\* Launch and disconnect requests, with launches on several ports.
ServerLaunch ==
    /\ seq < MaxRequests
    /\ \E session \in Sessions, args \in ServerLaunchArgs, validates \in BOOLEAN :
          launchRequest(session, args, validates)

NextServers ==
    \/ Install
    \/ ServerLaunch
    \/ BindError
    \/ Disconnect
    \/ Settle
    \/ RunFinally
    \/ RunDone

SpecServers == Init /\ [][NextServers]_vars

\* The event loop runs every queued callback; nothing makes the remote
\* extension answer, or the client send a request.
LiveSpec ==
    /\ Spec
    /\ WF_vars(BindError)
    /\ WF_vars(RunFinally)
    /\ WF_vars(RunDone)

\* ------------------------------------------------------------------ claims
CallsOf(d) == {i \in 1 .. Len(disconnectCalls) : disconnectCalls[i].id = d}
LinesOf(d) == {i \in 1 .. Len(stderr) : stderr[i].id = d}
FinallyQueued(d) == \E i \in 1 .. Len(ticks) : ticks[i] = [kind |-> "finally", id |-> d]
SameCall(i, d) ==
    /\ disconnectCalls[i].receiver = disconnects[d].receiver
    /\ disconnectCalls[i].response = disconnects[d].response
    /\ disconnectCalls[i].args = disconnects[d].args

\* C1: every wrapped disconnect request invokes the original disconnect at
\* most once, and exactly once as soon as the stop attempt has thrown or
\* its promise has settled and the callback of finally has run, whether the
\* promise resolved or rejected; the invocation has the request's session
\* as receiver and the request's response and args.
C1_OriginalDisconnectExactlyOnce ==
    \A d \in 1 .. Len(disconnects) :
        /\ Cardinality(CallsOf(d)) <= 1
        /\ \A i \in CallsOf(d) : SameCall(i, d)
        /\ (disconnects[d].stop # "pending" /\ ~FinallyQueued(d))
              => Cardinality(CallsOf(d)) = 1

\* a rejected stop call and a synchronous throw, each with its one call
C1_Witness ==
    \E d, e \in 1 .. Len(disconnects) :
        /\ disconnects[d].stop = "reported"
        /\ disconnects[e].stop = "threw"
        /\ Cardinality(CallsOf(d)) = 1
        /\ Cardinality(CallsOf(e)) = 1

\* C2: the original disconnect of a request is never invoked while the
\* stop-monitoring call of that request is in flight: an invocation exists
\* only when the stop attempt threw (no call pending) or its promise has
\* settled.
C2_NoCallWhileStopInFlight ==
    \A i \in 1 .. Len(disconnectCalls) :
        disconnects[disconnectCalls[i].id].stop # "pending"

\* one request waits for its stop call, uncalled, next to one that was
\* called after its stop call resolved
C2_Witness ==
    \E d, e \in 1 .. Len(disconnects) :
        /\ disconnects[d].stop = "pending"
        /\ CallsOf(d) = {}
        /\ disconnects[e].stop = "stopped"
        /\ CallsOf(e) # {}

\* C3: every disconnect request is eventually followed by the invocation
\* of the original disconnect, whatever the stop-monitoring call does.
C3_EventuallyDisconnected ==
    \A d \in 1 .. MaxRequests :
        [](Len(disconnects) >= d => <>(CallsOf(d) # {}))

IsDecimalOf(string, n) ==
    /\ string.t = "string"
    /\ string.v # <<>>
    /\ \A i \in 1 .. Len(string.v) :
          IsDigit(string.v[i]) \/ (i = 1 /\ n < 0 /\ string.v[i] = "-")
    /\ parseInt(string) = Num(n)

\* a target is provided when the field holds a non-empty string
TargetProvided(a) == a.target.t = "string" /\ a.target.v # <<>>

\* C4: the args.args handed to the original launch is an array of 4 or 5
\* elements: args.platform, the decimal string of the port the server was
\* asked to listen on, args.iosRelativeProjectPath unless it is null or
\* undefined and then the default iOS path, args.target when provided and
\* else "simulator"; it has a fifth element exactly when logCatArguments is
\* neither null nor undefined.
C4_SanitizedVector ==
    \A i \in 1 .. Len(launchCalls) :
        LET a == launchCalls[i].given
            v == launchCalls[i].call.args.args
        IN  /\ v.t = "array"
            /\ Len(v.v) \in {4, 5}
            /\ v.v[1] = a.platform
            /\ IsDecimalOf(v.v[2], servers[launchCalls[i].server].port)
            /\ v.v[3] = (IF a.iosRelativeProjectPath \in {Null, Undefined}
                         THEN DEFAULT_IOS_PROJECT_RELATIVE_PATH
                         ELSE a.iosRelativeProjectPath)
            /\ v.v[4] = (IF TargetProvided(a) THEN a.target ELSE Simulator)
            /\ (Len(v.v) = 5) <=> (a.logCatArguments \notin {Null, Undefined})

\* an empty relative path is kept, an absent target defaulted, five elements
C4_Witness ==
    \E i \in 1 .. Len(launchCalls) :
        /\ launchCalls[i].given.iosRelativeProjectPath = Str(<<>>)
        /\ launchCalls[i].given.target = Undefined
        /\ launchCalls[i].given.internalDebuggerPort = Num(8081)
        /\ launchCalls[i].call.args.args.v[3] = Str(<<>>)
        /\ launchCalls[i].call.args.args.v[2] = Str(<<"8", "0", "8", "1">>)
        /\ Len(launchCalls[i].call.args.args.v) = 5

AgreeOnWhitelist(a, b) ==
    /\ a.platform = b.platform
    /\ a.internalDebuggerPort = b.internalDebuggerPort
    /\ a.iosRelativeProjectPath = b.iosRelativeProjectPath
    /\ a.target = b.target
    /\ a.logCatArguments = b.logCatArguments

\* C5: two launch requests that agree on platform, internalDebuggerPort,
\* iosRelativeProjectPath, target and logCatArguments hand the same
\* args.args to the original launch, and no element of the caller's
\* args.args is in it.
C5_OnlyWhitelistedFields ==
    \A i, j \in 1 .. Len(launchCalls) :
        /\ AgreeOnWhitelist(launchCalls[i].given, launchCalls[j].given)
              => launchCalls[i].call.args.args = launchCalls[j].call.args.args
        /\ launchCalls[i].given.args.t = "array"
              => \A m \in 1 .. Len(launchCalls[i].given.args.v) :
                   \A n \in 1 .. Len(launchCalls[i].call.args.args.v) :
                      launchCalls[i].call.args.args.v[n] # launchCalls[i].given.args.v[m]

\* two launches that differ in program and in the caller's args only
C5_Witness ==
    \E i, j \in 1 .. Len(launchCalls) :
        /\ AgreeOnWhitelist(launchCalls[i].given, launchCalls[j].given)
        /\ launchCalls[i].given.args # launchCalls[j].given.args
        /\ launchCalls[i].given.program # launchCalls[j].given.program
        /\ launchCalls[i].given.args.t = "array"
        /\ launchCalls[i].call.args.args = launchCalls[j].call.args.args

RECURSIVE OffsetOf(_, _)
\* where the i-th element starts in the joined string, less one
OffsetOf(elems, i) ==
    IF i = 1 THEN 0 ELSE OffsetOf(elems, i - 1) + Len(elems[i - 1].v) + 1

IsSpaceJoined(string, elems) ==
    /\ string.t = "string"
    /\ IF elems = <<>> THEN string.v = <<>>
       ELSE /\ Len(string.v) = OffsetOf(elems, Len(elems)) + Len(elems[Len(elems)].v)
            /\ \A i \in 1 .. Len(elems) :
                  /\ SubSeq(string.v, OffsetOf(elems, i) + 1,
                            OffsetOf(elems, i) + Len(elems[i].v)) = elems[i].v
                  /\ i > 1 => string.v[OffsetOf(elems, i)] = " "

\* C6: when logCatArguments is an array of strings the last element of the
\* vector is its elements in order with one space between neighbours
\* (["-b","main","-v"] gives "-b main -v"); when it is a string the last
\* element is that string.
C6_LogCatJoined ==
    \A i \in 1 .. Len(launchCalls) :
        LET a == launchCalls[i].given.logCatArguments
            v == launchCalls[i].call.args.args.v
        IN  /\ a.t = "array" => IsSpaceJoined(v[Len(v)], a.v)
            /\ a.t = "string" => v[Len(v)] = a
            /\ a = Arr(<<Str(<<"-", "b">>), Str(<<"m", "a", "i", "n">>), Str(<<"-", "v">>)>>)
                 => v[Len(v)] = Str(<<"-", "b", " ", "m", "a", "i", "n", " ", "-", "v">>)

\* the three flags of the example, joined in fifth place
C6_Witness ==
    \E i \in 1 .. Len(launchCalls) :
        /\ launchCalls[i].given.logCatArguments.t = "array"
        /\ Len(launchCalls[i].given.logCatArguments.v) = 3
        /\ launchCalls[i].call.args.args.v[5] =
              Str(<<"-", "b", " ", "m", "a", "i", "n", " ", "-", "v">>)

\* C7: the server is asked to listen on the value of internalDebuggerPort
\* only when that parses as a positive integer and on 9090 in every other
\* case, and the second element of the vector is the string of that port.
C7_PortOrDefault ==
    /\ \A k \in 1 .. Len(servers) :
          LET p == parseInt(servers[k].given.internalDebuggerPort)
          IN  servers[k].port = (IF p.t = "number" /\ p.v > 0 THEN p.v
                                 ELSE DefaultPort)
    /\ \A i \in 1 .. Len(launchCalls) :
          IsDecimalOf(launchCalls[i].call.args.args.v[2],
                      servers[launchCalls[i].server].port)

Initialized(s) == {i \in 1 .. Len(sent[s]) : sent[s][i].event = "initialized"}
RefreshesOf(s) ==
    {i \in 1 .. Len(responses) :
        /\ responses[i].url = "/refreshBreakpoints"
        /\ servers[responses[i].server].session = s}

\* C8: a control request is answered 200 when its path is exactly
\* /refreshBreakpoints and 404 otherwise, and each session has been sent as
\* many Initialized events as its servers have answered /refreshBreakpoints
\* requests: one per such request, on the session launched with the server,
\* none for any other request.
C8_RefreshRoute ==
    /\ \A i \in 1 .. Len(responses) :
          responses[i].statusCode =
             (IF responses[i].url = "/refreshBreakpoints" THEN 200 ELSE 404)
    /\ \A s \in Sessions : Cardinality(Initialized(s)) = Cardinality(RefreshesOf(s))

\* a 200 on a server of a session that got one Initialized event, while
\* another session, launched as well, got none
C8_Witness ==
    \E i \in 1 .. Len(responses), k \in 1 .. Len(servers) :
        /\ responses[i].statusCode = 200
        /\ responses[i].url = "/refreshBreakpoints"
        /\ Cardinality(Initialized(servers[responses[i].server].session)) = 1
        /\ servers[k].session # servers[responses[i].server].session
        /\ Initialized(servers[k].session) = {}

BindFailed(k) ==
    /\ servers[k].port \in 0 .. MaxTcpPort
    /\ servers[k].state # "listening"
LaunchCallsOf(k) == {i \in 1 .. Len(launchCalls) : launchCalls[i].server = k}
ReportsOf(k) == {i \in 1 .. Len(telemetry) : telemetry[i].server = k}
OutputsOf(s, k) ==
    {i \in 1 .. Len(sent[s]) : sent[s][i].event = "output" /\ sent[s][i].server = k}

\* C9: when the server of a launch could not bind its port, the launch did
\* not throw and invoked the original launch exactly once, on the session,
\* with the request and the sanitized args; once the error callback has run
\* there is one reinitializeServerError telemetry event for it and the two
\* Output events on its session, and none on another session.
C9_BindFailureContained ==
    \A k \in 1 .. Len(servers) :
        BindFailed(k) =>
            /\ \A i \in 1 .. Len(thrown) : thrown[i].request # servers[k].request
            /\ Cardinality(LaunchCallsOf(k)) = 1
            /\ \A i \in LaunchCallsOf(k) :
                  /\ launchCalls[i].call.receiver = servers[k].session
                  /\ launchCalls[i].call.request = servers[k].request
                  /\ Len(launchCalls[i].call.args.args.v) \in {4, 5}
                  /\ IsDecimalOf(launchCalls[i].call.args.args.v[2], servers[k].port)
            /\ servers[k].state \in {"errorPending", "error"}
            /\ Cardinality(ReportsOf(k)) = (IF servers[k].state = "error" THEN 1 ELSE 0)
            /\ \A s \in Sessions :
                  Cardinality(OutputsOf(s, k)) =
                     (IF servers[k].state = "error" /\ s = servers[k].session
                      THEN 2 ELSE 0)

\* a second launch on a port the first launch's server holds, reported
C9_Witness ==
    \E k, m \in 1 .. Len(servers) :
        /\ servers[m].state = "listening"
        /\ servers[k].port = servers[m].port
        /\ servers[k].state = "error"
        /\ Cardinality(LaunchCallsOf(k)) = 1
        /\ Cardinality(ReportsOf(k)) = 1
        /\ sent[servers[k].session][1].category = "stderr"

StopFailed(d) == disconnects[d].stop \in {"threw", "reported"}
FailureText(failure) ==
    IF failure.kind = "string" THEN failure.value
    ELSE IF failure.message = "" THEN "Error" ELSE failure.message

\* C10: a disconnect whose stop attempt threw, or whose stop promise was
\* rejected and has been handled, has written exactly one line to stderr,
\* which holds the failure's message (the failure as a string when it has
\* none); a disconnect whose stop attempt did not fail has written none;
\* no exception left the wrapped disconnect and no event was sent for it;
\* and the original disconnect was invoked with the request's response and
\* args.
C10_StopFailureIsOnlyAWarning ==
    /\ \A d \in 1 .. Len(disconnects) :
          /\ Cardinality(LinesOf(d)) = (IF StopFailed(d) THEN 1 ELSE 0)
          /\ \A i \in LinesOf(d) :
                \E part \in 1 .. Len(stderr[i].line) :
                    stderr[i].line[part] = FailureText(disconnects[d].failure)
          /\ StopFailed(d) =>
                \E i \in CallsOf(d) : SameCall(i, d)
    /\ \A i \in 1 .. Len(thrown) : thrown[i].op # "disconnect"
    /\ \A s \in Sessions : \A i \in 1 .. Len(sent[s]) :
          sent[s][i].event \in {"initialized", "output"}
             /\ (sent[s][i].event = "output" => sent[s][i].server \in 1 .. Len(servers))

\* a rejection with a bare reason and a throw of an Error without message
C10_Witness ==
    \E d, e \in 1 .. Len(disconnects) :
        /\ disconnects[d].stop = "reported"
        /\ disconnects[d].failure = [kind |-> "string", value |-> "ETIMEDOUT"]
        /\ Cardinality(LinesOf(d)) = 1
        /\ disconnects[e].stop = "threw"
        /\ disconnects[e].failure = [kind |-> "Error", message |-> ""]
        /\ Cardinality(LinesOf(e)) = 1


RequestsOf(command) ==
    {r \in 1 .. Len(received) : received[r].command = command}
AttachCallsOf(r) == {i \in 1 .. Len(attachCalls) : attachCalls[i].request = r}

\* every attach request has one invocation of the original attachRequest,
\* with the request's session as receiver and the request's args, and
\* there is no other invocation
AttachDelegates ==
    /\ \A r \in RequestsOf("attach") :
          \E i \in AttachCallsOf(r) :
              /\ AttachCallsOf(r) = {i}
              /\ attachCalls[i].receiver = received[r].session
              /\ attachCalls[i].args = received[r].args
    /\ Len(attachCalls) = Cardinality(RequestsOf("attach"))

\* no rebinding of the telemetry reporter and no control server comes from
\* an attach request
AttachHasNoAuxiliaryEffect ==
    /\ \A i \in 1 .. Len(rebinds) : rebinds[i].request \notin RequestsOf("attach")
    /\ \A k \in 1 .. Len(servers) : servers[k].request \notin RequestsOf("attach")

RebindsOf(r) == {i \in 1 .. Len(rebinds) : rebinds[i].request = r}
ServersOf(r) == {k \in 1 .. Len(servers) : servers[k].request = r}
OriginalLaunchesOf(r) ==
    {i \in 1 .. Len(launchCalls) : launchCalls[i].call.request = r}
LaunchThrew(r) == \E i \in 1 .. Len(thrown) : thrown[i].request = r
StopCallsOf(r) ==
    {d \in 1 .. Len(disconnects) :
        disconnects[d].response.request_seq = r /\ disconnects[d].stopCalled}
OriginalDisconnectsOf(r) ==
    {i \in 1 .. Len(disconnectCalls) : disconnectCalls[i].response.request_seq = r}

\* C12: however often the interceptors have been installed, one launch
\* request rebinds telemetry once, starts one control server and calls the
\* original launch once (unless listen threw), and one disconnect request
\* issues at most one stop-monitoring call and at most one original
\* disconnect.
C12_InstallIdempotent ==
    /\ \A r \in RequestsOf("launch") :
          /\ Cardinality(RebindsOf(r)) = 1
          /\ Cardinality(ServersOf(r)) = 1
          /\ ~LaunchThrew(r) => Cardinality(OriginalLaunchesOf(r)) = 1
    /\ \A r \in RequestsOf("disconnect") :
          /\ Cardinality(StopCallsOf(r)) <= 1
          /\ Cardinality(OriginalDisconnectsOf(r)) <= 1

\* the launch that created server k has rebound telemetry, and its bind
\* attempt has its outcome: the server listens, or listen threw, or the
\* bind error has been reported with its telemetry event and Output events
LaunchSettled(k) ==
    /\ Cardinality(RebindsOf(servers[k].request)) = 1
    /\ servers[k].state \in {"listening", "ephemeral", "threw", "error"}
    /\ servers[k].state = "error" =>
          /\ Cardinality(ReportsOf(k)) = 1
          /\ Cardinality(OutputsOf(servers[k].session, k)) = 2

NextRequestIs(commands, s) ==
    /\ Len(received') = Len(received) + 1
    /\ received'[Len(received')].command \in commands
    /\ received'[Len(received')].session = s

\* C13: when an attach or disconnect request of a session starts being
\* processed, every earlier launch of that session has rebound telemetry
\* and has the outcome of its bind attempt: its server listens, or the bind
\* error has been reported (telemetry event and Output events).
C13_LaunchCompleteBeforeNextRequest ==
    [][\A s \in Sessions :
          NextRequestIs({"attach", "disconnect"}, s) =>
              \A k \in 1 .. Len(servers) :
                  servers[k].session = s => LaunchSettled(k)]_vars

\* a disconnect request of a session whose launch could not bind its port
C13_Witness ==
    /\ Len(received) = 2
    /\ received[1].command = "launch"
    /\ received[2].command = "disconnect"
    /\ received[2].session = received[1].session
    /\ Len(servers) = 1
    /\ servers[1].state = "error"
    /\ Cardinality(ReportsOf(1)) = 1
    /\ Len(disconnects) = 1

\* the directory above a normalised absolute path; the root is its own
ParentOf(segs) == IF segs = <<>> THEN <<>> ELSE SubSeq(segs, 1, Len(segs) - 1)
\* the grandparent directory of a program path
GrandparentOf(program) ==
    [abs |-> TRUE,
     segs |-> ParentOf(ParentOf(NormalizeSegs(<<>>, IF program.abs THEN program.segs
                                                     ELSE Cwd \o program.segs)))]

\* C14: each launch request rebinds the telemetry reporter exactly once, to
\* an ExtensionTelemetryReporter made of the application name, the version,
\* the instrumentation key and the grandparent directory of that launch's
\* program; the rebinding is made before the launch's control server exists
\* and before the original launch is invoked, and the reporter points to
\* the sink of the latest launch.
C14_RebindsOnceBeforeServerAndLaunch ==
    /\ \A r \in RequestsOf("launch") :
          /\ Cardinality(RebindsOf(r)) = 1
          /\ \A i \in RebindsOf(r) :
                /\ rebinds[i].to =
                      [kind |-> "extension", appName |-> AppName,
                       version |-> Version, key |-> APPINSIGHTS_INSTRUMENTATIONKEY,
                       projectRootPath |-> GrandparentOf(received[r].args.program)]
                /\ \A k \in ServersOf(r) : k > rebinds[i].servers
                /\ \A j \in OriginalLaunchesOf(r) : j > rebinds[i].launched
    /\ Len(rebinds) = Cardinality(RequestsOf("launch"))
    /\ rebinds # <<>> => telemetryReporter = rebinds[Len(rebinds)].to

\* two launches with different programs, each with its server and its
\* original launch
C14_Witness ==
    /\ Len(rebinds) = 2
    /\ rebinds[1].to.projectRootPath # rebinds[2].to.projectRootPath
    /\ Len(servers) = 2
    /\ Len(launchCalls) = 2
    /\ telemetryReporter.projectRootPath = rebinds[2].to.projectRootPath

LaunchesBefore(s, r) ==
    {q \in 1 .. r - 1 : received[q].command = "launch" /\ received[q].session = s}
Latest(requests) == CHOOSE q \in requests : \A p \in requests : p <= q

\* C15: the wrapped disconnect of a session gives
\* RemoteExtension.atProjectRootPath the project root computed by the
\* latest launch of that same session, whatever was launched on the other
\* sessions in between.
C15_DisconnectUsesOwnRoot ==
    \A d \in 1 .. Len(disconnects) :
        LET r == disconnects[d].response.request_seq
            own == LaunchesBefore(disconnects[d].receiver, r)
        IN  own # {} =>
               disconnects[d].root = GrandparentOf(received[Latest(own)].args.program)

Listening(k) == servers[k].state = "listening"
PortHeldBefore(k) ==
    \/ servers[k].port \in externalPorts
    \/ \E m \in 1 .. k - 1 : Listening(m) /\ servers[m].port = servers[k].port
ListeningOf(s) ==
    {k \in 1 .. Len(servers) :
        servers[k].session = s /\ servers[k].state \in {"listening", "ephemeral"}}

\* no two servers listen on one port, none listens on a port another
\* process holds, and the server of a launch on a port an earlier server
\* listens on does not listen but has the bind error, reported once its
\* callback has run
OneListenerPerPort ==
    /\ \A k, m \in 1 .. Len(servers) :
          (k # m /\ Listening(k) /\ Listening(m)) => servers[k].port # servers[m].port
    /\ \A k \in 1 .. Len(servers) :
          Listening(k) => servers[k].port \notin externalPorts
    /\ \A k \in 1 .. Len(servers) :
          (\E m \in 1 .. k - 1 : Listening(m) /\ servers[m].port = servers[k].port)
             => /\ servers[k].state \in {"errorPending", "error"}
                /\ servers[k].state = "error" => Cardinality(ReportsOf(k)) = 1

Disconnected(s) ==
    \E i \in 1 .. Len(disconnectCalls) : disconnectCalls[i].receiver = s

\* C17: once the original disconnect of a session has been invoked, no
\* step sends that session another Initialized event or changes its
\* source-map caches.
C17_ServerDiesWithSession ==
    [][\A s \in Sessions :
          Disconnected(s) =>
              /\ {i \in 1 .. Len(sent'[s]) : sent'[s][i].event = "initialized"}
                    = Initialized(s)
              /\ sourceMaps'[s] = sourceMaps[s]]_vars

StopPending == \E d \in 1 .. Len(disconnects) : disconnects[d].stop = "pending"

\* the control request /refreshBreakpoints to server k, answered 200 with
\* an Initialized event sent to the server's session
RefreshAnswered(k) ==
    /\ controlRequest(k, RefreshBreakpoints)
    /\ Len(responses') = Len(responses) + 1
    /\ responses'[Len(responses')].statusCode = StatusOk
    /\ sent'[servers[k].session] =
          Append(sent[servers[k].session], [event |-> "initialized"])

\* the same request, changing something the disconnect flows depend on
RefreshDisturbs(k) ==
    /\ controlRequest(k, RefreshBreakpoints)
    /\ ~ UNCHANGED <<disconnects, projectRootPath, disconnectCalls, ticks, stderr>>

\* C18: while a wrapped disconnect waits for its stop-monitoring call to
\* settle, a /refreshBreakpoints request to a listening control server is
\* handled in the next turn of the event loop, answered 200 with an
\* Initialized event, and handling it leaves the pending stop calls, the
\* stored project root, the invocations of the original disconnect and the
\* queued callbacks as they were.
C18_ControlIndependentOfDisconnect ==
    \A k \in 1 .. Len(servers) :
        (StopPending /\ ticks = <<>> /\ servers[k].state \in {"listening", "ephemeral"})
           => /\ ENABLED RefreshAnswered(k)
              /\ ~ ENABLED RefreshDisturbs(k)

\* a disconnect still waiting for its stop call, a launch after it, and
\* the launch's server having answered /refreshBreakpoints
C18_Witness ==
    /\ Len(received) = 2
    /\ received[1].command = "disconnect"
    /\ received[2].command = "launch"
    /\ Len(disconnects) = 1
    /\ disconnects[1].stop = "pending"
    /\ disconnectCalls = <<>>
    /\ Len(responses) = 1
    /\ responses[1].statusCode = StatusOk
    /\ Cardinality(Initialized(received[2].session)) = 1

HasCaches(s) == sourceMaps[s] \notin {Undefined, Null}
Before(steps, a, b) ==
    \E i, j \in 1 .. Len(steps) : i < j /\ steps[i] = a /\ steps[j] = b

\* the effect a control request to server k with this answer must have had
ControlFrame(k, answer) ==
    LET s == servers[k].session
    IN  /\ \A o \in Sessions \ {s} : sourceMaps'[o] = sourceMaps[o] /\ sent'[o] = sent[o]
        /\ IF answer.url = "/refreshBreakpoints"
           THEN /\ answer.statusCode = StatusOk
                /\ sent'[s] = Append(sent[s], [event |-> "initialized"])
                /\ IF HasCaches(s)
                   THEN /\ sourceMaps'[s]._allSourceMaps = {}
                        /\ sourceMaps'[s]._generatedToSourceMaps = {}
                        /\ sourceMaps'[s]._sourceToGeneratedMaps = {}
                        /\ Before(answer.steps, "flush", "sendEvent")
                   ELSE sourceMaps'[s] = sourceMaps[s]
           ELSE /\ sourceMaps'[s] = sourceMaps[s]
                /\ sent'[s] = sent[s]

\* C19: handling /refreshBreakpoints empties the three source-map caches
\* of the server's session (all source maps, generated-to-source,
\* source-to-generated) before it sends Initialized when the session has
\* caches, answers 200 and sends Initialized without touching anything
\* when it has none, and a request with another path leaves the caches and
\* the events as they were; no other session is touched.
C19_RefreshFlushesCaches ==
    [][Len(responses') = Len(responses) + 1 =>
          ControlFrame(responses'[Len(responses')].server,
                       responses'[Len(responses')])]_vars

\* the session with caches after a /refreshBreakpoints request: the three
\* caches empty and one Initialized event
C19_Witness ==
    /\ Len(responses) = 1
    /\ responses[1].url = "/refreshBreakpoints"
    /\ servers[responses[1].server].session = 1
    /\ sourceMaps[1]._allSourceMaps = {}
    /\ sourceMaps[1]._generatedToSourceMaps = {}
    /\ sourceMaps[1]._sourceToGeneratedMaps = {}
    /\ Cardinality(Initialized(1)) = 1
====
